---- MODULE Spec2Model ----
(***************************************************************************)
(* Model of host_guest/GenerateInputs.ipynb: the SAMPL6 host-guest input   *)
(* preparation notebook, run top to bottom.  The OpenEye and OpenBabel     *)
(* calls are modelled by their effect on the molecule records, on the      *)
(* files and on standard output; the outcome of every toolkit call that    *)
(* returns a status is a nondeterministic choice.                          *)
(***************************************************************************)
EXTENDS Integers, Sequences, FiniteSets, TLC

(* ------------------------------ bounds --------------------------------- *)
\* lines in Gibb_SAMPL6_guests.smi
MaxGibb == 1
\* lines in Isaacs_SAMPL6_guests.smi
MaxIsaacs == 2
\* conformers Omega may generate (the notebook allows up to 100)
ConfBound == 2
\* toolkit calls that may fail during one run
MaxFaults == 1

(* ----------------------------- vocabulary ------------------------------ *)
Hosts == {"OA", "TEMOA", "CB8"}

Whitespace == {" ", "\t", "\n"}

\* a SMILES of k atoms
Token(k) == [j \in 1..k |-> "C"]

\* a line "SMILES name\n"
NamedLine(k) == Token(k) \o <<" ", "x", "\n">>

\* a line with leading blanks and no name column
BareLine(k) == <<" ", "\t">> \o Token(k) \o <<"\n">>

\* the guest SMILES files considered: up to max lines, every line with a
\* SMILES of its own, in one of the two layouts
SmiTexts(max) ==
  UNION { { [k \in 1..n |-> NamedLine(k)], [k \in 1..n |-> BareLine(n + 1 - k)] } :
          n \in 1..max }

VARIABLES
  pc,          \* position of the run in the notebook
  gibb,        \* content of Gibb_SAMPL6_guests.smi, known once it is read
  isaacs,      \* content of Isaacs_SAMPL6_guests.smi, known once it is read
  files,       \* files written so far: path -> [mol, text, stage]
  hostmol,     \* the variables OA, TEMOA, CB8
  receptors,   \* the dict receptors
  text,        \* text
  hostname,    \* hostname
  hi,          \* iterations of the host loop completed
  smiles,      \* smiles
  guest_names, \* guest_names
  dock,        \* receptor the OEDock object is initialised on
  i,           \* iterations of the guest loop completed
  smi,         \* smi
  name,        \* name
  mol,         \* mol
  dockedMol,   \* dockedMol
  status,      \* status
  outmol,      \* outmol
  oemols,      \* oemols
  stdout,      \* what the notebook printed
  faults       \* toolkit calls that have failed so far

vars == <<pc, gibb, isaacs, files, hostmol, receptors, text, hostname, hi,
          smiles, guest_names, dock, i, smi, name, mol, dockedMol, status,
          outmol, oemols, stdout, faults>>

(* ---------------------------- molecule records ------------------------- *)
\* OEMol() / OEGraphMol(): a molecule without atoms
EmptyMol(obj) ==
  [obj |-> obj, file |-> "", smi |-> <<>>, nonempty |-> FALSE,
   confs |-> <<>>, maxconf |-> 0, charged |-> FALSE, built |-> "",
   rec |-> "", res |-> ""]

NoReceptor == [host |-> "", nonempty |-> FALSE]

(* ------------------------------- stage 1 ------------------------------- *)
HostDir(h) == IF h = "CB8" THEN "CB8AndGuests" ELSE "OctaAcidsAndGuests"

SourceFmt(h) == IF h = "CB8" THEN ".sdf" ELSE ".pdb"

\* os.path.join(source_dir, dir, file)
Path(dir, file) == <<".", dir, file>>

\* OEReadMolecule(ifile, M): M holds the parsed molecule, or stays empty
HostRead(h, ok) ==
  IF ok
  THEN [obj |-> h, file |-> h \o SourceFmt(h), smi |-> <<>>,
        nonempty |-> TRUE, confs |-> <<0>>, maxconf |-> 1,
        charged |-> FALSE, built |-> "file", rec |-> "", res |-> h]
  ELSE EmptyMol(h)

HostFormatsAllSame(h) == {".mol2", ".sdf"}

\* the formats each host is written to
HostFormats(h) == IF h = "CB8" THEN {".pdb", ".mol2"} ELSE {".mol2", ".sdf"}

\* OEWriteMolecule to a .mol2 stream: the substructure column holds the
\* residue name, "<0>" for a molecule without residue information
Mol2Lines(m) ==
  IF m.nonempty
  THEN << <<"@<TRIPOS>MOLECULE">>, <<"@<TRIPOS>ATOM">>, <<"1", "C1", m.res>>,
          <<"@<TRIPOS>SUBSTRUCTURE">>, <<"1", m.res>> >>
  ELSE << <<"@<TRIPOS>MOLECULE">> >>

\* OEWriteMolecule(ofile, m) on the stream of a path
Written(m, fmt, stage) ==
  [mol |-> m, text |-> IF fmt = ".mol2" THEN Mol2Lines(m) ELSE <<>>,
   stage |-> stage]

LoadHosts ==
  /\ pc = "LoadHosts"
  /\ \E ok \in [Hosts -> BOOLEAN] :
       LET read == [h \in Hosts |-> HostRead(h, ok[h])]
           out  == { <<h, fmt>> : h \in Hosts, fmt \in {".pdb", ".mol2", ".sdf"} }
           outs == { x \in out : x[2] \in HostFormats(x[1]) }
           paths == { Path(HostDir(x[1]), x[1] \o x[2]) : x \in outs }
       IN /\ faults + Cardinality({h \in Hosts : ~ok[h]}) <= MaxFaults
          /\ faults' = faults + Cardinality({h \in Hosts : ~ok[h]})
          /\ hostmol' = read
          /\ files' = [p \in DOMAIN files \cup paths |->
                         IF p \in paths
                         THEN LET x == CHOOSE y \in outs :
                                          Path(HostDir(y[1]), y[1] \o y[2]) = p
                              IN Written(read[x[1]], x[2], 1)
                         ELSE files[p]]
  /\ pc' = "MakeReceptors"
  /\ UNCHANGED <<gibb, isaacs, receptors, text, hostname, hi, smiles,
                 guest_names, dock, i, smi, name, mol, dockedMol, status,
                 outmol, oemols, stdout>>

(* ------------------------------- stage 2 ------------------------------- *)
\* OEMakeReceptor(receptor, hostmol, com...)
MakeReceptor(h, m) == [host |-> h, nonempty |-> m.nonempty]

MakeReceptors ==
  /\ pc = "MakeReceptors"
  /\ receptors' = [h \in Hosts |-> MakeReceptor(h, hostmol[h])]
  /\ pc' = "ReadGibb"
  /\ UNCHANGED <<gibb, isaacs, files, hostmol, text, hostname, hi, smiles,
                 guest_names, dock, i, smi, name, mol, dockedMol, status,
                 outmol, oemols, stdout, faults>>

(* --------------------------- text handling ----------------------------- *)
RECURSIVE LStrip(_)
\* drop the leading whitespace of a line
LStrip(s) ==
  IF s = <<>> THEN <<>>
  ELSE IF Head(s) \in Whitespace THEN LStrip(Tail(s)) ELSE s

RECURSIVE TakeToken(_)
\* the characters of a line up to its first whitespace
TakeToken(s) ==
  IF s = <<>> \/ Head(s) \in Whitespace THEN <<>>
  ELSE <<Head(s)>> \o TakeToken(Tail(s))

RECURSIVE Split(_)
\* line.split(): the whitespace-separated tokens of a line
Split(s) ==
  LET t == LStrip(s)
  IN IF t = <<>> THEN <<>>
     ELSE LET w == TakeToken(t)
          IN <<w>> \o Split(SubSeq(t, Len(w) + 1, Len(t)))

LastToken(line) == Split(line)[Len(Split(line))]

\* line.split()[0]
FirstToken(line) == Split(line)[1]

\* smiles = [ line.split()[0] for line in text ]
Smiles(txt) == [k \in 1..Len(txt) |-> FirstToken(txt[k])]

\* guest_names = [ prefix + 'G%s' % i for i in range(len(smiles)) ]
GuestNames(prefix, n) ==
  [k \in 1..n |-> prefix \o "G" \o ToString(k - 1)]

\* [line.replace(old, new) for line in lines]
Replace(lines, old, new) ==
  [k \in DOMAIN lines |->
     [j \in DOMAIN lines[k] |->
        IF lines[k][j] = old THEN new ELSE lines[k][j]]]

(* --------------------------- the guest loop ---------------------------- *)
\* OEParseSmiles, OESetNeutralpHModel, omega(mol) generating n conformers
\* (n = 0: Omega fails and the molecule keeps its single input conformer),
\* OEAssignCharges
PreparedMol(s, n) ==
  [obj |-> "mol", file |-> "", smi |-> s, nonempty |-> TRUE,
   confs |-> IF n = 0 THEN <<0>> ELSE [k \in 1..n |-> k - 1],
   maxconf |-> IF n = 0 THEN 1 ELSE n,
   charged |-> TRUE, built |-> "omega", rec |-> "", res |-> "<0>"]

\* dock.DockMultiConformerMolecule(dockedMol, m): the top scoring pose of m
\* in the receptor, or an empty dockedMol when docking fails
DockedPose(m, receptor, ok) ==
  IF ok
  THEN [obj |-> "dockedMol", file |-> m.file, smi |-> m.smi,
        nonempty |-> TRUE, confs |-> <<0>>, maxconf |-> 1,
        charged |-> m.charged, built |-> m.built, rec |-> receptor.host,
        res |-> m.res]
  ELSE EmptyMol("dockedMol")

DeleteAllButLast(k, n) == k < n - 1

\* if k > 0: mol.DeleteConf(conf), at index k of n conformers
DeleteExcess(k, n) == k > 0

RECURSIVE PruneFrom(_, _, _)
\* for k, conf in enumerate(mol.GetConfs()), from index k on
PruneFrom(confs, k, n) ==
  IF confs = <<>> THEN <<>>
  ELSE (IF DeleteExcess(k, n) THEN <<>> ELSE <<Head(confs)>>)
       \o PruneFrom(Tail(confs), k + 1, n)

PruneConfs(m) == [m EXCEPT !.confs = PruneFrom(m.confs, 0, Len(m.confs))]

\* one pass of the body of: for (smi, name) in zip(smiles, guest_names)
\* Omega generates n conformers (n = 0: it fails), docking returns ok.
GuestBody(dir, stage) ==
  /\ i < Len(smiles)
  /\ smi' = smiles[i + 1]
  /\ name' = guest_names[i + 1]
  /\ \E n \in 0..ConfBound, ok \in BOOLEAN :
       LET failed   == (IF n = 0 THEN 1 ELSE 0)
                         + (IF ~ok /\ dock.nonempty THEN 1 ELSE 0)
           prepared == PreparedMol(smi', n)
           out1     == IF n = 0
                       THEN Append(stdout, <<"Error generating conformers", name'>>)
                       ELSE stdout
       IN /\ ok => dock.nonempty
          /\ faults + failed <= MaxFaults
          /\ faults' = faults + failed
          /\ dockedMol' = DockedPose(prepared, dock, ok)
          /\ status' = IF ok THEN "Success" ELSE "Failed"
          /\ IF ok
             THEN /\ outmol' = dockedMol'
                  /\ mol' = prepared
                  /\ stdout' = out1
             ELSE /\ stdout' = Append(out1, <<"Docking failed", name'>>)
                  /\ mol' = PruneConfs(prepared)
                  /\ outmol' = mol'
  /\ LET mol2 == Path(dir, name' \o ".mol2")
         sdf  == Path(dir, name' \o ".sdf")
         w    == Written(outmol', ".mol2", stage)
     IN files' = [p \in DOMAIN files \cup {mol2, sdf} |->
                    IF p = mol2
                    THEN [w EXCEPT !.text = Replace(w.text, "<0>", name')]
                    ELSE IF p = sdf THEN Written(outmol', ".sdf", stage)
                    ELSE files[p]]
  /\ oemols' = Append(oemols, outmol')
  /\ i' = i + 1

(* ------------------------------- stage 3 ------------------------------- *)
HostOrder == <<"OA", "TEMOA">>

ReadGibb ==
  /\ pc = "ReadGibb"
  /\ gibb' \in SmiTexts(MaxGibb)
  /\ text' = gibb'
  /\ hi' = 0
  /\ pc' = "HostLoop"
  /\ UNCHANGED <<isaacs, files, hostmol, receptors, hostname, smiles,
                 guest_names, dock, i, smi, name, mol, dockedMol, status,
                 outmol, oemols, stdout, faults>>

HostLoop ==
  /\ pc = "HostLoop"
  /\ IF hi < Len(HostOrder)
     THEN /\ hostname' = HostOrder[hi + 1]
          /\ smiles' = Smiles(text)
          /\ guest_names' = GuestNames(hostname' \o "-", Len(smiles'))
          /\ dock' = receptors[hostname']
          /\ oemols' = <<>>
          /\ i' = 0
          /\ pc' = "GuestLoop"
     ELSE /\ pc' = "ReadIsaacs"
          /\ UNCHANGED <<hostname, smiles, guest_names, dock, oemols, i>>
  /\ UNCHANGED <<gibb, isaacs, files, hostmol, receptors, text, hi, smi, name,
                 mol, dockedMol, status, outmol, stdout, faults>>

Guest ==
  /\ pc = "GuestLoop"
  /\ GuestBody("OctaAcidsAndGuests", 3)
  /\ UNCHANGED <<pc, gibb, isaacs, hostmol, receptors, text, hostname, hi,
                 smiles, guest_names, dock>>

\* the guest loop is exhausted: back to the host loop
GuestsDone ==
  /\ pc = "GuestLoop"
  /\ i >= Len(smiles)
  /\ hi' = hi + 1
  /\ pc' = "HostLoop"
  /\ UNCHANGED <<gibb, isaacs, files, hostmol, receptors, text, hostname,
                 smiles, guest_names, dock, i, smi, name, mol, dockedMol,
                 status, outmol, oemols, stdout, faults>>

(* ------------------------------- stage 4 ------------------------------- *)
ReceptorOfLastHost == receptors[hostname]

\* dock.Initialize(receptors['CB8'])
CB8Receptor == receptors["CB8"]

ReadIsaacs ==
  /\ pc = "ReadIsaacs"
  /\ isaacs' \in SmiTexts(MaxIsaacs)
  /\ text' = isaacs'
  /\ smiles' = Smiles(text')
  /\ guest_names' = GuestNames("CB8-", Len(smiles'))
  /\ dock' = CB8Receptor
  /\ oemols' = <<>>
  /\ i' = 0
  /\ pc' = "CB8GuestLoop"
  /\ UNCHANGED <<gibb, files, hostmol, receptors, hostname, hi, smi, name,
                 mol, dockedMol, status, outmol, stdout, faults>>

CB8Guest ==
  /\ pc = "CB8GuestLoop"
  /\ GuestBody("CB8AndGuests", 4)
  /\ UNCHANGED <<pc, gibb, isaacs, hostmol, receptors, text, hostname, hi,
                 smiles, guest_names, dock>>

\* the guest loop is exhausted: on to the oxaliplatin cell
CB8GuestsDone ==
  /\ pc = "CB8GuestLoop"
  /\ i >= Len(smiles)
  /\ pc' = "OxObabel"
  /\ UNCHANGED <<gibb, isaacs, files, hostmol, receptors, text, hostname, hi,
                 smiles, guest_names, dock, i, smi, name, mol, dockedMol,
                 status, outmol, oemols, stdout, faults>>

(* ------------------------------- stage 5 ------------------------------- *)
SmiPath == <<".", "", "oxaliplatin.smi">>

TmpPath == <<".", "", "tmp.mol2">>

\* the structure obabel --gen3d builds from a SMILES: one conformer, no charges
ObabelMol(s) ==
  [obj |-> "obabel", file |-> "tmp.mol2", smi |-> s, nonempty |-> TRUE,
   confs |-> <<0>>, maxconf |-> 1, charged |-> FALSE, built |-> "obabel",
   rec |-> "", res |-> "UNL1"]

FirstOf(s) == s[1]

\* s[-1]
LastOf(s) == s[Len(s)]

\* file.write(smiles[-1]); os.system('obabel -ismi oxaliplatin.smi -omol2 -O tmp.mol2 --gen3d')
OxObabel ==
  /\ pc = "OxObabel"
  /\ \E ok \in BOOLEAN :
       LET s    == LastOf(smiles)
           made == IF ok THEN {SmiPath, TmpPath} ELSE {SmiPath}
       IN /\ ~ok => faults < MaxFaults
          /\ faults' = IF ok THEN faults ELSE faults + 1
          /\ files' = [p \in DOMAIN files \cup made |->
                         IF p = SmiPath
                         THEN [mol |-> EmptyMol("file"), text |-> <<s>>, stage |-> 5]
                         ELSE IF p = TmpPath /\ ok
                         THEN Written(ObabelMol(s), ".mol2", 5)
                         ELSE files[p]]
  /\ pc' = "OxRead"
  /\ UNCHANGED <<gibb, isaacs, hostmol, receptors, text, hostname, hi, smiles,
                 guest_names, dock, i, smi, name, mol, dockedMol, status,
                 outmol, oemols, stdout>>

\* mol = OEMol(); OEReadMolecule(istream, mol); rm oxaliplatin.smi; rm tmp.mol2
\* The residue name the toolkit keeps for the molecule is its own choice.
OxRead ==
  /\ pc = "OxRead"
  /\ \E r \in {"<0>", "UNL1"} :
       mol' = IF TmpPath \in DOMAIN files
              THEN [files[TmpPath].mol EXCEPT !.obj = "mol", !.res = r]
              ELSE EmptyMol("mol")
  /\ files' = [p \in DOMAIN files \ {SmiPath, TmpPath} |-> files[p]]
  /\ pc' = "OxDock"
  /\ UNCHANGED <<gibb, isaacs, hostmol, receptors, text, hostname, hi, smiles,
                 guest_names, dock, i, smi, name, dockedMol, status, outmol,
                 oemols, stdout, faults>>

OxDock ==
  /\ pc = "OxDock"
  /\ \E ok \in BOOLEAN :
       /\ ok => mol.nonempty /\ dock.nonempty
       /\ ~ok => faults < MaxFaults \/ ~mol.nonempty \/ ~dock.nonempty
       /\ faults' = IF ~ok /\ mol.nonempty /\ dock.nonempty
                    THEN faults + 1 ELSE faults
       /\ dockedMol' = DockedPose(mol, dock, ok)
       /\ status' = IF ok THEN "Success" ELSE "Failed"
       /\ outmol' = dockedMol'
  /\ pc' = "OxWrite"
  /\ UNCHANGED <<gibb, isaacs, files, hostmol, receptors, text, hostname, hi,
                 smiles, guest_names, dock, i, smi, name, mol, oemols, stdout>>

OxWrite ==
  /\ pc = "OxWrite"
  /\ LET mol2 == Path("CB8AndGuests", LastOf(guest_names) \o ".mol2")
         sdf  == Path("CB8AndGuests", LastOf(guest_names) \o ".sdf")
     IN files' = [p \in DOMAIN files \cup {mol2, sdf} |->
                    IF p = mol2 THEN Written(outmol, ".mol2", 5)
                    ELSE IF p = sdf THEN Written(outmol, ".sdf", 5)
                    ELSE files[p]]
  /\ pc' = "done"
  /\ UNCHANGED <<gibb, isaacs, hostmol, receptors, text, hostname, hi, smiles,
                 guest_names, dock, i, smi, name, mol, dockedMol, status,
                 outmol, oemols, stdout, faults>>

(* ---------------------------- specification ---------------------------- *)
Init ==
  /\ pc = "LoadHosts"
  /\ gibb = <<>>
  /\ isaacs = <<>>
  /\ files = <<>>
  /\ hostmol = <<>>
  /\ receptors = <<>>
  /\ text = <<>>
  /\ hostname = ""
  /\ hi = 0
  /\ smiles = <<>>
  /\ guest_names = <<>>
  /\ dock = NoReceptor
  /\ i = 0
  /\ smi = <<>>
  /\ name = ""
  /\ mol = EmptyMol("mol")
  /\ dockedMol = EmptyMol("dockedMol")
  /\ status = ""
  /\ outmol = EmptyMol("mol")
  /\ oemols = <<>>
  /\ stdout = <<>>
  /\ faults = 0


Next ==
  \/ LoadHosts
  \/ MakeReceptors
  \/ ReadGibb
  \/ HostLoop
  \/ Guest
  \/ GuestsDone
  \/ ReadIsaacs
  \/ CB8Guest
  \/ CB8GuestsDone
  \/ OxObabel
  \/ OxRead
  \/ OxDock
  \/ OxWrite

Spec == Init /\ [][Next]_vars

(* ------------------------------ properties ----------------------------- *)
\* the stage of the notebook the action at position p belongs to
\* (6: the run is over)
StageOf(p) ==
  CASE p = "LoadHosts" -> 1
    [] p = "MakeReceptors" -> 2
    [] p \in {"ReadGibb", "HostLoop", "GuestLoop"} -> 3
    [] p \in {"ReadIsaacs", "CB8GuestLoop"} -> 4
    [] p \in {"OxObabel", "OxRead", "OxDock", "OxWrite"} -> 5
    [] OTHER -> 6

\* tok is the first whitespace-separated token of line
IsFirstToken(tok, line) ==
  \E a \in 0..Len(line) :
    /\ \A j \in 1..a : line[j] \in Whitespace
    /\ Len(tok) > 0
    /\ a + Len(tok) <= Len(line)
    /\ \A j \in 1..Len(tok) : tok[j] = line[a + j] /\ tok[j] \notin Whitespace
    /\ a + Len(tok) = Len(line) \/ line[a + Len(tok) + 1] \in Whitespace

\* the guest whose files were written last, and the directory they are in
AfterGuestWrite ==
  \/ pc \in {"GuestLoop", "CB8GuestLoop"} /\ i > 0
  \/ pc = "done"

GuestDir == IF pc = "GuestLoop" THEN "OctaAcidsAndGuests" ELSE "CB8AndGuests"

\* C1: whenever docking of a guest does not return success, in the OA/TEMOA
\* loop, the CB8 loop and the oxaliplatin cell alike, a warning is printed and
\* the molecule in the guest's .mol2 and .sdf files is the un-docked input
\* pose mol, never the dockedMol object; when docking succeeds the docked
\* pose is written.
C1_FallbackInEveryStage ==
  AfterGuestWrite =>
    \A ext \in {".mol2", ".sdf"} :
      LET f == files[Path(GuestDir, name \o ext)]
      IN IF status = "Success"
         THEN f.mol = dockedMol /\ f.mol.obj = "dockedMol" /\ f.mol.nonempty
         ELSE /\ f.mol = mol
              /\ f.mol.obj = "mol"
              /\ \E k \in 1..Len(stdout) : stdout[k] = <<"Docking failed", name>>

C3_NoTagLeft ==
  pc = "done" =>
    \A p \in DOMAIN files :
      files[p].stage >= 3 /\ files[p].text # <<>> =>
        \A k \in DOMAIN files[p].text :
          \A j \in DOMAIN files[p].text[k] : files[p].text[k][j] # "<0>"

C5_Oxaliplatin ==
  /\ StageOf(pc) >= 5 => dock.host = "CB8"
  /\ pc \in {"OxDock", "OxWrite", "done"} =>
       /\ ~mol.charged
       /\ mol.nonempty =>
            /\ mol.built = "obabel"
            /\ IsFirstToken(mol.smi, isaacs[Len(isaacs)])
  /\ pc \in {"OxWrite", "done"} /\ status = "Success" =>
       /\ dockedMol.rec = "CB8"
       /\ dockedMol.smi = mol.smi
       /\ ~dockedMol.charged
  /\ pc = "done" =>
       \A ext \in {".mol2", ".sdf"} :
         LET p == <<".", "CB8AndGuests",
                    "CB8-G" \o ToString(Len(isaacs) - 1) \o ext>>
         IN /\ p \in DOMAIN files
            /\ files[p].stage = 5
            /\ files[p].mol = dockedMol

\* oxaliplatin is the second of two CB8 guests, was docked and written
C5_Witness ==
  /\ pc = "done"
  /\ Len(isaacs) = 2 /\ isaacs[1] # isaacs[2]
  /\ status = "Success"
  /\ files[<<".", "CB8AndGuests", "CB8-G1.sdf">>].mol.built = "obabel"

\* C6: after the host-loading stage every host has an .sdf, a .mol2 and a
\* .pdb file in its directory: the provided file, which the notebook does not
\* overwrite, and two written files holding the molecule read from that
\* host's own source file.
C6_HostFormats ==
  StageOf(pc) >= 2 =>
    \A h \in Hosts : \A fmt \in {".sdf", ".mol2", ".pdb"} :
      LET dir == IF h = "CB8" THEN "CB8AndGuests" ELSE "OctaAcidsAndGuests"
          src == IF h = "CB8" THEN ".sdf" ELSE ".pdb"
          p   == <<".", dir, h \o fmt>>
      IN IF fmt = src
         THEN p \notin DOMAIN files
         ELSE /\ p \in DOMAIN files
              /\ files[p].mol = hostmol[h]
              /\ hostmol[h].obj = h
              /\ hostmol[h].nonempty => hostmol[h].file = h \o src

\* the three hosts were read and written
C6_Witness ==
  /\ pc = "MakeReceptors"
  /\ \A h \in Hosts : hostmol[h].nonempty
  /\ files[<<".", "CB8AndGuests", "CB8.pdb">>].mol.file = "CB8.sdf"
  /\ files[<<".", "OctaAcidsAndGuests", "TEMOA.sdf">>].mol.file = "TEMOA.pdb"

\* C7: a molecule is used by a later step only if the read of its file
\* succeeded: every host written to another format was parsed, every receptor
\* is built from a parsed host, and the oxaliplatin molecule that is docked
\* was parsed from tmp.mol2.
C7_OnlyParsedMoleculesUsed ==
  /\ \A p \in DOMAIN files : files[p].stage = 1 => files[p].mol.nonempty
  /\ \A h \in DOMAIN receptors : receptors[h].nonempty
  /\ pc \in {"OxWrite", "done"} => mol.nonempty

\* C8: when docking fails in the OA/TEMOA or CB8 loop, the molecule written
\* has exactly one conformer, the one at index 0 of those generated.
C8_FirstConformerKept ==
  pc \in {"GuestLoop", "CB8GuestLoop"} /\ i > 0 /\ status = "Failed" =>
    /\ outmol.confs = <<0>>
    /\ \A ext \in {".mol2", ".sdf"} :
         LET f == files[Path(GuestDir, name \o ext)]
         IN /\ Len(f.mol.confs) = 1
            /\ f.mol.confs[1] = 0
            /\ f.mol.obj = "mol"

\* a guest with several conformers failed to dock and was written
C8_Witness ==
  /\ pc \in {"GuestLoop", "CB8GuestLoop"} /\ i > 0 /\ status = "Failed"
  /\ files[Path(GuestDir, name \o ".mol2")].mol.maxconf > 1
  /\ files[Path(GuestDir, name \o ".mol2")].mol.confs = <<0>>
====
